---- MODULE Spec2Model ----
(***************************************************************************)
(* A model of the two-pass assembler (main.c, assembler.c, preprocessor.c, *)
(* parser.c, validations.c, label.c, memory.c, file_manager.c, error.c).   *)
(*                                                                         *)
(* Text is modelled structurally: a character is a one-character string, a *)
(* token is a sequence of characters, a line is the sequence of the tokens *)
(* that strtok yields for it (separators are blanks, tabs and commas), and *)
(* a file is a sequence of lines.  The empty sequence stands for the C     *)
(* NULL pointer where a token is expected.                                 *)
(***************************************************************************)
EXTENDS Integers, Sequences, FiniteSets, TLC

VARIABLES
    pc,          \* position of main()/assemble() in their code
    fs,          \* the files on disk: path -> [exists, lines]
    faults,      \* the file operations that fail in this run (environment)
    argc,        \* number of source files named on the command line
    filenames,   \* main.c filenames[]: [base, ext] per source file
    contexts,    \* main.c contexts[]: the preprocessor's Context per file
    macro_list,  \* preprocessor.c static macro_list (head first)
    errors,      \* error.c static errors[] (error_flag is errors # <<>>)
    success,     \* main.c success
    mem,         \* assembler.c Memory mem
    fi,          \* loop index i of the loop main/assemble is in
    written,     \* paths opened for writing and written during this job
    log,         \* the calls assemble() has made so far, in order
    emitted,     \* per label declaration: the words emitted before it
    exit_code,   \* the value main() returned (-1 while it runs)
    call         \* a function applied on its own: its arguments and result

vars == <<pc, fs, faults, argc, filenames, contexts, macro_list, errors,
          success, mem, fi, written, log, emitted, exit_code, call>>

(***************************************************************************)
(* Program constants.                                                      *)
(***************************************************************************)
MEMORY_SIZE == 4096
WORD_SIZE == 15
UNDEFINED_MODE == -1
IMMEDIATE_MODE == 1
DIRECT_MODE == 2
INDIRECT_REGISTER_MODE == 4
DIRECT_REGISTER_MODE == 8
ARE_ABSOLUTE == 4
ARE_RELOCATABLE == 2
ARE_EXTERNAL == 1
INVALID_OPCODE == 65535
FIRST_REGISTER == "1"
LAST_REGISTER == "7"
NULL == <<>>

(***************************************************************************)
(* Characters.  Ord gives the character codes the code computes with.      *)
(***************************************************************************)
Digits == <<"0", "1", "2", "3", "4", "5", "6", "7", "8", "9">>
Upper == <<"A", "B", "C", "D", "E", "F", "G", "H", "I", "J", "K", "L", "M",
           "N", "O", "P", "Q", "R", "S", "T", "U", "V", "W", "X", "Y", "Z">>
Lower == <<"a", "b", "c", "d", "e", "f", "g", "h", "i", "j", "k", "l", "m",
           "n", "o", "p", "q", "r", "s", "t", "u", "v", "w", "x", "y", "z">>
Range(s) == {s[i] : i \in DOMAIN s}
IndexOf(s, c) == CHOOSE i \in DOMAIN s : s[i] = c

isdigit(c) == c \in Range(Digits)
isalpha(c) == c \in Range(Upper) \cup Range(Lower)
DigitVal(c) == IndexOf(Digits, c) - 1
Ord(c) ==
    IF c \in Range(Digits) THEN 48 + DigitVal(c)
    ELSE IF c \in Range(Upper) THEN 64 + IndexOf(Upper, c)
    ELSE IF c \in Range(Lower) THEN 96 + IndexOf(Lower, c)
    ELSE CASE c = " " -> 32 [] c = "\"" -> 34 [] c = "#" -> 35
           [] c = "*" -> 42 [] c = "+" -> 43 [] c = "," -> 44
           [] c = "-" -> 45 [] c = "." -> 46 [] c = ":" -> 58
           [] c = ";" -> 59 [] c = "_" -> 95
\* c - '0' as handle_operand computes a register number
CharMinusZero(c) == Ord(c) - 48
\* c >= lo && c <= hi on characters
CharBetween(c, lo, hi) == Ord(lo) <= Ord(c) /\ Ord(c) <= Ord(hi)

(***************************************************************************)
(* Tokens the code compares with.                                          *)
(***************************************************************************)
tData == <<".", "d", "a", "t", "a">>
tString == <<".", "s", "t", "r", "i", "n", "g">>
tEntry == <<".", "e", "n", "t", "r", "y">>
tExtern == <<".", "e", "x", "t", "e", "r", "n">>
tIntern == <<".", "i", "n", "t", "e", "r", "n">>
tMov == <<"m", "o", "v">>
tCmp == <<"c", "m", "p">>
tAdd == <<"a", "d", "d">>
tSub == <<"s", "u", "b">>
tLea == <<"l", "e", "a">>
tClr == <<"c", "l", "r">>
tNot == <<"n", "o", "t">>
tInc == <<"i", "n", "c">>
tDec == <<"d", "e", "c">>
tJmp == <<"j", "m", "p">>
tBne == <<"b", "n", "e">>
tRed == <<"r", "e", "d">>
tPrn == <<"p", "r", "n">>
tJsr == <<"j", "s", "r">>
tRts == <<"r", "t", "s">>
tStop == <<"s", "t", "o", "p">>
tMacr == <<"m", "a", "c", "r">>
tEndmacr == <<"e", "n", "d", "m", "a", "c", "r">>
tEndmar == <<"e", "n", "d", "m", "a", "r">>

\* operations.c: the operation table, mnemonic i has opcode i - 1
operations == <<tMov, tCmp, tAdd, tSub, tLea, tClr, tNot, tInc,
                tDec, tJmp, tBne, tRed, tPrn, tJsr, tRts, tStop>>
get_opcode(mnemonic) ==
    IF mnemonic \in Range(operations)
    THEN IndexOf(operations, mnemonic) - 1
    ELSE INVALID_OPCODE

\* validations.c: reserved_words and validCommands
reserved_words == Range(operations) \cup {tData, tString, tExtern, tIntern}
validCommands == Range(operations) \cup {tMacr, tEndmar}
is_reserved_word(label_name) == label_name \in reserved_words

(***************************************************************************)
(* C string functions on tokens.                                           *)
(***************************************************************************)
\* strchr(token, c) != NULL
strchr(token, c) == \E i \in DOMAIN token : token[i] = c
\* strstr(token, pat) != NULL
strstr(token, pat) ==
    \E i \in 0..(Len(token) - Len(pat)) :
        \A j \in 1..Len(pat) : token[i + j] = pat[j]
\* strncmp(s, pat, strlen(pat)) == 0
HasPrefix(s, pat) ==
    /\ Len(s) >= Len(pat)
    /\ \A j \in 1..Len(pat) : s[j] = pat[j]
\* the first token strtok yields for a line, NULL for a blank line
FirstToken(line) == IF line = <<>> THEN NULL ELSE line[1]
\* the token that follows position i, NULL when there is none
TokenAt(line, i) == IF i \in DOMAIN line THEN line[i] ELSE NULL

(***************************************************************************)
(* Machine arithmetic: Word is an unsigned short, int is wide enough for   *)
(* every value used here.                                                  *)
(***************************************************************************)
Pow2(n) == 2 ^ n
ToWord(n) == n % Pow2(16)
Mask15(n) == n % Pow2(15)
Shl(n, k) == n * Pow2(k)
RECURSIVE BitOr(_, _)
BitOr(a, b) ==
    IF a = 0 THEN b
    ELSE IF b = 0 THEN a
    ELSE 2 * BitOr(a \div 2, b \div 2) + (IF a % 2 = 1 \/ b % 2 = 1 THEN 1 ELSE 0)
\* bits hi..lo of a word
Bits(w, hi, lo) == (w \div Pow2(lo)) % Pow2(hi - lo + 1)
ARE(w) == Bits(w, 2, 0)

\* parser.c int_to_word
int_to_word(value) ==
    LET v == IF value < 0 THEN Pow2(WORD_SIZE) + value ELSE value
    IN  Mask15(v)

\* atoi on a token: optional sign, then the leading digits
RECURSIVE DigitsValue(_, _, _)
DigitsValue(s, i, acc) ==
    IF i > Len(s) \/ ~isdigit(s[i]) THEN acc
    ELSE DigitsValue(s, i + 1, 10 * acc + DigitVal(s[i]))
atoi(s) ==
    IF s = <<>> THEN 0
    ELSE IF s[1] = "-" THEN 0 - DigitsValue(s, 2, 0)
    ELSE IF s[1] = "+" THEN DigitsValue(s, 2, 0)
    ELSE DigitsValue(s, 1, 0)

Min(a, b) == IF a <= b THEN a ELSE b
\* the least element of a non-empty set of integers
Least(S) == CHOOSE x \in S : \A y \in S : x <= y
Greatest(S) == CHOOSE x \in S : \A y \in S : x >= y
\* concatenation of a sequence of sequences, by halves
RECURSIVE FlattenRange(_, _, _)
FlattenRange(ss, lo, hi) ==
    IF lo > hi THEN <<>>
    ELSE IF lo = hi THEN ss[lo]
    ELSE LET mid == (lo + hi) \div 2
         IN  FlattenRange(ss, lo, mid) \o FlattenRange(ss, mid + 1, hi)
Flatten(ss) == FlattenRange(ss, 1, Len(ss))

(***************************************************************************)
(* error.c.  The handlers below thread a record st = [mem, errors]: the    *)
(* Memory structure they are passed and the error list they append to.     *)
(***************************************************************************)
add_error(st, code, filename, line, detail) ==
    [st EXCEPT !.errors =
        Append(@, [code |-> code, filename |-> filename, line |-> line,
                   detail |-> detail])]
has_errors(errs) == errs # <<>>

(***************************************************************************)
(* memory.c                                                                *)
(***************************************************************************)
\* initialize_memory
initialize_memory ==
    [IC |-> 0, DC |-> 100, current_line_number |-> 0, current_line |-> NULL,
     current_file |-> NULL, instructionList |-> <<>>, dataList |-> <<>>,
     label_list |-> <<>>]

\* clear_memory
clear_memory ==
    [IC |-> 0, DC |-> 0, current_line_number |-> 0, current_line |-> NULL,
     current_file |-> NULL, instructionList |-> <<>>, dataList |-> <<>>,
     label_list |-> <<>>]

\* increment_IC / increment_DC applied n times to a counter: each call adds
\* one while the counter is below MEMORY_SIZE and otherwise only complains
\* on stderr
IncrementCounter(counter, n) ==
    IF counter >= MEMORY_SIZE THEN counter
    ELSE Min(counter + n, MEMORY_SIZE)
increment_IC(st) == [st EXCEPT !.mem.IC = IncrementCounter(@, 1)]
increment_DC(st) == [st EXCEPT !.mem.DC = IncrementCounter(@, 1)]

\* the node write_to_memory allocates: the word is masked to 15 bits
NewNode(address, word, label_name) ==
    [address |-> address, data |-> Mask15(word), label_name |-> label_name]
\* write_to_memory
write_to_memory(st, address, word, isInstruction, label_name) ==
    IF isInstruction
    THEN [st EXCEPT !.mem.instructionList =
              Append(@, NewNode(address, word, label_name))]
    ELSE [st EXCEPT !.mem.dataList =
              Append(@, NewNode(address, word, label_name))]

\* write_to_memory(mem, mem->DC, w, 0, NULL); increment_DC(mem) for each w
\* of words in turn: word k is stored at the value DC has after k - 1
\* increments
WriteDataWords(st, words) ==
    LET dc0 == st.mem.DC
        nodes == [k \in 1..Len(words) |->
                    NewNode(IncrementCounter(dc0, k - 1), words[k], NULL)]
    IN  [st EXCEPT !.mem.dataList = @ \o nodes,
                   !.mem.DC = IncrementCounter(dc0, Len(words))]

\* move_to_next_word: the current line from after its first ':' on
move_to_next_word(st) ==
    LET cl == st.mem.current_line
        S == {i \in DOMAIN cl : strchr(cl[i], ":")}
    IN  IF S = {} THEN st
        ELSE [st EXCEPT !.mem.current_line = SubSeq(cl, Least(S) + 1, Len(cl))]

(***************************************************************************)
(* label.c                                                                 *)
(***************************************************************************)
NewLabel(name, address, is_instruction, entry, external, file_name, declared, line_number) ==
    [name |-> name, file_name |-> file_name, address |-> address,
     line_number |-> line_number, is_instruction |-> is_instruction,
     entry |-> entry, external |-> external, declared |-> declared]

\* is_label
is_label(token, label_list) ==
    \E i \in DOMAIN label_list : label_list[i].name = token
\* find_label: the index of the first label of that name, 0 for NULL
find_label(label_list, name) ==
    IF is_label(name, label_list)
    THEN Least({i \in DOMAIN label_list : label_list[i].name = name})
    ELSE 0
\* add_label: an existing record of that name is overwritten
add_label(label_list, name, address, is_instruction, entry, external, file_name, declared, line_number) ==
    LET new == NewLabel(name, address, is_instruction, entry, external,
                        file_name, declared, line_number)
        i == find_label(label_list, name)
    IN  IF i # 0 THEN [label_list EXCEPT ![i] = new]
        ELSE Append(label_list, new)

(***************************************************************************)
(* preprocessor.c: the macro list, as the validators read it.              *)
(***************************************************************************)
\* find_macro(name) != NULL in the macro list ml
macro_defined(ml, name) == \E i \in DOMAIN ml : ml[i].name = name
\* find_macro: the first macro of that name from the head
find_macro(ml, name) ==
    ml[Least({i \in DOMAIN ml : ml[i].name = name})]

(***************************************************************************)
(* validations.c                                                           *)
(***************************************************************************)
\* validate_data
validate_data(data) ==
    LET a == IF data # <<>> /\ data[1] = "#" THEN 2 ELSE 1
        b == IF a <= Len(data) /\ data[a] \in {"+", "-"} THEN a + 1 ELSE a
    IN  \A i \in b..Len(data) : isdigit(data[i])

\* validate_string
validate_string(string) ==
    /\ Len(string) >= 2
    /\ string[1] = "\""
    /\ string[Len(string)] = "\""
    /\ \A i \in 2..(Len(string) - 1) :
          Ord(string[i]) >= 32 /\ Ord(string[i]) <= 126

\* validate_label_name: [ok, st]
validate_label_name(label_name, st) ==
    LET m == st.mem
    IN  IF label_name = <<>> \/ ~isalpha(label_name[1])
        THEN [ok |-> FALSE,
              st |-> add_error(st, "ERR_INVALID_LABEL_NAME", m.current_file,
                               m.current_line_number, label_name)]
        ELSE IF is_reserved_word(label_name)
        THEN [ok |-> FALSE,
              st |-> add_error(st, "ERR_RESERVED_WORD", m.current_file,
                               m.current_line_number, label_name)]
        ELSE IF macro_defined(macro_list, label_name)
        THEN [ok |-> FALSE,
              st |-> add_error(st, "ERR_LABEL_NAME_USED_AS_MACRO",
                               m.current_file, m.current_line_number,
                               label_name)]
        ELSE [ok |-> TRUE, st |-> st]

\* a validate_label_declaration that lets a declared label be declared again
DeclarationAccepted(label_name, st) == [ok |-> TRUE, st |-> st]
\* validate_label_declaration: [ok, st]
validate_label_declaration(label_name, st) ==
    LET r == validate_label_name(label_name, st)
        i == find_label(st.mem.label_list, label_name)
    IN  IF ~r.ok THEN r
        ELSE IF i # 0 /\ st.mem.label_list[i].declared
        THEN [ok |-> FALSE,
              st |-> add_error(st, "ERR_LABEL_ALREADY_DECLARED",
                               st.mem.current_file,
                               st.mem.current_line_number, label_name)]
        ELSE [ok |-> TRUE, st |-> st]

\* validate_operand: [ok, st]
validate_operand(operand, st) ==
    IF operand = NULL THEN [ok |-> FALSE, st |-> st]
    ELSE IF Len(operand) = 2 /\ operand[1] = "r"
            /\ CharBetween(operand[2], "0", "7")
    THEN [ok |-> TRUE, st |-> st]
    ELSE IF Len(operand) = 3 /\ operand[1] = "*" /\ operand[2] = "r"
            /\ CharBetween(operand[3], "0", "7")
    THEN [ok |-> TRUE, st |-> st]
    ELSE IF operand[1] = "#"
    THEN [ok |-> validate_data(operand), st |-> st]
    ELSE validate_label_name(operand, st)

\* validate_macro_name
validate_macro_name(macroName) ==
    /\ macroName # NULL
    /\ macroName \notin validCommands
    /\ isalpha(macroName[1])
    /\ ~(Len(macroName) = 2 /\ macroName[1] = "r"
         /\ CharBetween(macroName[2], "0", "7"))

\* validate_instruction: the error codes it records, in order; the
\* instruction is valid exactly when it records none
InstructionErrors(operation, dest_mode, source_mode) ==
    LET If(c, code) == IF c THEN <<code>> ELSE <<>>
    IN  IF operation \in {tMov, tCmp, tAdd, tSub, tLea}
        THEN If(source_mode = UNDEFINED_MODE, "ERR_INVALID_SOURCE_OPERAND")
             \o If(dest_mode = UNDEFINED_MODE, "ERR_INVALID_DEST_OPERAND")
             \o If(operation # tCmp /\ dest_mode = IMMEDIATE_MODE,
                   "ERR_INVALID_ADDRESS_MODE")
             \o If(operation = tLea /\ source_mode # DIRECT_MODE,
                   "ERR_INVALID_ADDRESS_MODE")
             \o If(operation = tLea /\ dest_mode = IMMEDIATE_MODE,
                   "ERR_INVALID_ADDRESS_MODE")
        ELSE IF operation \in {tClr, tNot, tInc, tDec, tJmp, tBne, tRed,
                               tJsr, tPrn}
        THEN If(source_mode # UNDEFINED_MODE, "ERR_INVALID_SOURCE_OPERAND")
             \o If(dest_mode = UNDEFINED_MODE, "ERR_INVALID_DEST_OPERAND")
             \o If(operation \in {tClr, tNot, tInc, tDec, tRed}
                   /\ dest_mode = IMMEDIATE_MODE, "ERR_INVALID_ADDRESS_MODE")
             \o If(operation \in {tJmp, tBne, tJsr}
                   /\ dest_mode \in {IMMEDIATE_MODE, DIRECT_MODE},
                   "ERR_INVALID_ADDRESS_MODE")
        ELSE IF operation \in {tRts, tStop}
        THEN If(source_mode # UNDEFINED_MODE \/ dest_mode # UNDEFINED_MODE,
                "ERR_INVALID_SOURCE_OPERAND")
        ELSE <<>>
RECURSIVE AddErrors(_, _, _, _)
AddErrors(st, codes, i, detail) ==
    IF i > Len(codes) THEN st
    ELSE AddErrors(add_error(st, codes[i], st.mem.current_file,
                             st.mem.current_line_number, detail),
                   codes, i + 1, detail)
\* a validator that accepts every instruction
AcceptInstruction(operation, dest_mode, source_mode, st) ==
    [ok |-> TRUE, st |-> st]
\* validate_instruction: [ok, st]
validate_instruction(operation, dest_mode, source_mode, st) ==
    LET codes == InstructionErrors(operation, dest_mode, source_mode)
    IN  [ok |-> codes = <<>>,
         st |-> AddErrors(st, codes, 1, st.mem.current_line)]

(***************************************************************************)
(* parser.c                                                                *)
(***************************************************************************)
\* the index of the first token of line that equals current_token: where
\* the handlers' loop "while (strcmp(token, current_token) != 0)" stops
TokenIndex(line, current_token) ==
    Least({i \in DOMAIN line : line[i] = current_token})

\* strtok with ':' among the delimiters yields pat as one of the pieces of
\* token t
HasPiece(t, pat) ==
    \E i \in 1..(Len(t) - Len(pat) + 1) :
        /\ i = 1 \/ t[i - 1] = ":"
        /\ i + Len(pat) - 1 = Len(t) \/ t[i + Len(pat)] = ":"
        /\ \A j \in 1..Len(pat) : t[i + j - 1] = pat[j]
\* is_entry, is_extern and is_instruction scan the line's tokens: the first
\* whole, the following ones split at ':' as well
TokenIs(line, i, pats) ==
    IF i = 1 THEN line[1] \in pats
    ELSE \E pat \in pats : HasPiece(line[i], pat)

\* is_entry
is_entry(m) ==
    \E i \in DOMAIN m.current_line : TokenIs(m.current_line, i, {tEntry})
\* is_extern
is_extern(m) ==
    \E i \in DOMAIN m.current_line : TokenIs(m.current_line, i, {tExtern})
\* is_instruction: the first token that is a directive or a mnemonic decides
is_instruction(m) ==
    LET cl == m.current_line
        directives == {tString, tData, tExtern, tEntry}
        S == {i \in DOMAIN cl : TokenIs(cl, i, directives)
                                \/ TokenIs(cl, i, Range(operations))}
    IN  S # {} /\ ~TokenIs(cl, Least(S), directives)

\* handle_data_directive
RECURSIVE DataTokens(_, _, _)
DataTokens(st, line, k) ==
    IF k > Len(line) THEN st
    ELSE IF ~validate_data(line[k])
    THEN DataTokens(add_error(st, "ERR_INVALID_DATA", st.mem.current_file,
                              st.mem.current_line_number, line[k]),
                    line, k + 1)
    ELSE DataTokens(
             increment_DC(write_to_memory(st, st.mem.DC,
                                          int_to_word(atoi(line[k])),
                                          FALSE, NULL)),
             line, k + 1)
handle_data_directive(current_token, st) ==
    LET cl == st.mem.current_line
    IN  DataTokens(st, cl, TokenIndex(cl, current_token) + 1)

\* handle_string_directive: the characters between the opening quote and
\* the next quote, then a terminating zero
handle_string_directive(current_token, st) ==
    LET cl == st.mem.current_line
        token == TokenAt(cl, TokenIndex(cl, current_token) + 1)
        close == Least({i \in 2..Len(token) : token[i] = "\""})
        chars == [k \in 1..(close - 2) |-> Ord(token[k + 1])]
    IN  IF ~validate_string(token)
        THEN add_error(st, "ERR_INVALID_STRING", st.mem.current_file,
                       st.mem.current_line_number, token)
        ELSE WriteDataWords(st, chars \o <<0>>)

\* handle_no_operand_instruction
handle_no_operand_instruction(line, st) ==
    LET instruction == IF line = tRts THEN Shl(14, 11)
                       ELSE IF line = tStop THEN Shl(15, 11)
                       ELSE 0
    IN  increment_IC(write_to_memory(st, st.mem.IC,
                                     BitOr(instruction, 4), TRUE, NULL))

\* handle_label
handle_label(current_token, st) ==
    LET m == st.mem
        label_name == SubSeq(current_token, 1, Len(current_token) - 1)
        r == validate_label_declaration(label_name, st)
        i == find_label(m.label_list, label_name)
        instruction == is_instruction(m)
        address == IF instruction THEN m.IC ELSE m.DC
    IN  IF is_entry(m) \/ is_extern(m) THEN st
        ELSE IF ~r.ok THEN r.st
        ELSE IF i # 0
        THEN [st EXCEPT !.mem.label_list[i] =
                 [@ EXCEPT !.is_instruction = instruction,
                           !.address = address,
                           !.declared = TRUE,
                           !.file_name = m.current_file,
                           !.line_number = m.current_line_number]]
        ELSE [st EXCEPT !.mem.label_list =
                 add_label(@, label_name, address, instruction, FALSE, FALSE,
                           m.current_file, TRUE, m.current_line_number)]

\* get_addressing_mode
get_addressing_mode(operand) ==
    IF operand[1] = "#" THEN IMMEDIATE_MODE
    ELSE IF operand[1] = "r" /\ Len(operand) >= 2
            /\ CharBetween(operand[2], FIRST_REGISTER, LAST_REGISTER)
    THEN DIRECT_REGISTER_MODE
    ELSE IF operand[1] = "*" /\ Len(operand) >= 3 /\ operand[2] = "r"
            /\ CharBetween(operand[3], FIRST_REGISTER, LAST_REGISTER)
    THEN INDIRECT_REGISTER_MODE
    ELSE DIRECT_MODE

\* handle_double_register_operands
handle_double_register_operands(operand1, operand2, dest_mode, source_mode, st) ==
    LET src == IF source_mode = INDIRECT_REGISTER_MODE
               THEN Shl(CharMinusZero(operand1[3]), 3)
               ELSE Shl(CharMinusZero(operand1[2]), 3)
        dst == IF dest_mode = INDIRECT_REGISTER_MODE
               THEN Shl(CharMinusZero(operand2[3]), 6)
               ELSE Shl(CharMinusZero(operand2[2]), 6)
        additional_word == BitOr(BitOr(src, dst), ARE_ABSOLUTE)
    IN  increment_IC(write_to_memory(st, st.mem.IC, additional_word, TRUE,
                                     NULL))

\* handle_operand
handle_operand(operand, address_mode, st) ==
    LET m == st.mem
        emit(s, w, label_name) ==
            increment_IC(write_to_memory(s, s.mem.IC, w, TRUE, label_name))
        i == find_label(m.label_list, operand)
    IN  CASE address_mode = IMMEDIATE_MODE ->
               IF ~validate_data(operand)
               THEN add_error(st, "ERR_INVALID_DATA", m.current_file,
                              m.current_line_number, operand)
               ELSE LET digits == IF operand[1] = "#"
                                  THEN SubSeq(operand, 2, Len(operand))
                                  ELSE operand
                        w == ToWord(Shl(int_to_word(atoi(digits)), 3))
                    IN  emit(st, BitOr(w, ARE_ABSOLUTE), NULL)
          [] address_mode = DIRECT_MODE ->
               IF i # 0
               THEN LET label == m.label_list[i]
                        w == ToWord(Shl(ToWord(label.address), 3))
                        are == IF label.external THEN ARE_EXTERNAL
                               ELSE ARE_RELOCATABLE
                        s1 == [st EXCEPT !.mem.label_list[i].line_number =
                                             m.current_line_number]
                    IN  emit(s1, BitOr(w, are), label.name)
               ELSE LET s1 == [st EXCEPT !.mem.label_list =
                                  add_label(@, operand, 0, FALSE, FALSE,
                                            FALSE, m.current_file, FALSE,
                                            m.current_line_number)]
                    IN  emit(s1, ARE_EXTERNAL, operand)
          [] address_mode = INDIRECT_REGISTER_MODE ->
               emit(st, BitOr(Shl(CharMinusZero(operand[3]), 6),
                              ARE_ABSOLUTE), NULL)
          [] address_mode = DIRECT_REGISTER_MODE ->
               emit(st, BitOr(Shl(CharMinusZero(operand[2]), 6),
                              ARE_ABSOLUTE), NULL)
          [] OTHER ->
               add_error(st, "ERR_INVALID_ADDRESS_MODE", m.current_file,
                         m.current_line_number, m.current_line)

\* handle_instruction: the operand words that follow the instruction word
OperandWords(operand1, operand2, dest_mode, source_mode, st) ==
    LET IsReg(mode) == mode \in {INDIRECT_REGISTER_MODE, DIRECT_REGISTER_MODE}
    IN  IF operand1 # NULL /\ operand2 # NULL
        THEN IF IsReg(dest_mode) /\ IsReg(source_mode)
             THEN handle_double_register_operands(operand1, operand2,
                                                  dest_mode, source_mode, st)
             ELSE handle_operand(operand2, dest_mode,
                                 handle_operand(operand1, source_mode, st))
        ELSE IF operand1 # NULL THEN handle_operand(operand1, dest_mode, st)
        ELSE st
\* handle_instruction once validate_instruction has returned v: the
\* instruction word is built and written, then the operand words
InstructionWords(operation, operand1, operand2, dest_mode, source_mode, v) ==
    LET src == IF source_mode = UNDEFINED_MODE THEN 0 ELSE source_mode
        dst == IF dest_mode = UNDEFINED_MODE THEN 0 ELSE dest_mode
        instruction ==
            ToWord(BitOr(BitOr(Shl(get_opcode(operation), 11), Shl(src, 7)),
                         BitOr(Shl(dst, 3), ARE_ABSOLUTE)))
    IN  IF ~v.ok THEN v.st
        ELSE OperandWords(operand1, operand2, dst, src,
                          increment_IC(write_to_memory(v.st, v.st.mem.IC,
                                                       instruction, TRUE,
                                                       NULL)))
\* handle_instruction once the operands have been validated with result r
ValidatedInstruction(operation, operand1, operand2, dest_mode, source_mode, r) ==
    IF ~r.ok THEN r.st
    ELSE InstructionWords(operation, operand1, operand2, dest_mode,
                          source_mode,
                          validate_instruction(operation, dest_mode,
                                               source_mode, r.st))
\* handle_instruction: is_valid after the second operand, r1 being the
\* result for the first
SecondOperand(operand2, r1) ==
    LET r2 == validate_operand(operand2, r1.st)
    IN  [ok |-> r2.ok /\ r1.ok, st |-> r2.st]
\* handle_instruction
handle_instruction(current_token, st) ==
    LET cl == st.mem.current_line
        p == TokenIndex(cl, current_token)
        operation == cl[p]
        operand1 == TokenAt(cl, p + 1)
        operand2 == TokenAt(cl, p + 2)
        source_mode == IF operand1 # NULL /\ operand2 # NULL
                       THEN get_addressing_mode(operand1)
                       ELSE UNDEFINED_MODE
        dest_mode == IF operand1 = NULL THEN UNDEFINED_MODE
                     ELSE IF operand2 # NULL
                     THEN get_addressing_mode(operand2)
                     ELSE get_addressing_mode(operand1)
    IN  ValidatedInstruction(
            operation, operand1, operand2, dest_mode, source_mode,
            IF operand1 = NULL THEN [ok |-> TRUE, st |-> st]
            ELSE IF operand2 = NULL THEN validate_operand(operand1, st)
            ELSE SecondOperand(operand2, validate_operand(operand1, st)))

\* handle_entry
handle_entry(current_token, st) ==
    LET m == st.mem
        cl == m.current_line
        token == TokenAt(cl, TokenIndex(cl, current_token) + 1)
        r == validate_label_name(token, st)
        i == find_label(m.label_list, token)
        label == m.label_list[i]
        s1 == IF label.external \/ label.entry
                 \/ (label.declared /\ label.file_name # m.current_file)
              THEN add_error(st, "ERR_LABEL_ALREADY_DECLARED", m.current_file,
                             m.current_line_number, token)
              ELSE st
    IN  IF ~r.ok THEN r.st
        ELSE IF i # 0
        THEN [s1 EXCEPT !.mem.label_list[i] =
                 [@ EXCEPT !.entry = TRUE,
                           !.file_name = m.current_file,
                           !.line_number = m.current_line_number]]
        ELSE [st EXCEPT !.mem.label_list =
                 add_label(@, token, 0, FALSE, TRUE, FALSE, m.current_file,
                           FALSE, m.current_line_number)]

\* handle_extern
handle_extern(current_token, st) ==
    LET m == st.mem
        cl == m.current_line
        token == TokenAt(cl, TokenIndex(cl, current_token) + 1)
        r == validate_label_name(token, st)
        i == find_label(m.label_list, token)
        label == m.label_list[i]
        s1 == IF label.declared \/ label.external \/ label.entry
              THEN add_error(st, "ERR_LABEL_ALREADY_DECLARED", m.current_file,
                             m.current_line_number, token)
              ELSE st
    IN  IF ~r.ok THEN r.st
        ELSE IF i # 0
        THEN [s1 EXCEPT !.mem.label_list[i] =
                 [@ EXCEPT !.external = TRUE,
                           !.file_name = m.current_file,
                           !.line_number = m.current_line_number]]
        ELSE [st EXCEPT !.mem.label_list =
                 add_label(@, token, 0, FALSE, FALSE, TRUE, m.current_file,
                           FALSE, m.current_line_number)]

\* the loop of parse_line from token k of the line on
RECURSIVE ParseTokens(_, _, _)
ParseTokens(st, line, k) ==
    LET token == TokenAt(line, k)
    IN  IF token = NULL THEN st
        ELSE IF token[1] = ";" THEN st
        ELSE IF strchr(token, ":")
        THEN ParseTokens(move_to_next_word(handle_label(token, st)), line,
                         TokenIndex(line, token) + 1)
        ELSE IF strstr(token, tData) THEN handle_data_directive(token, st)
        ELSE IF strstr(token, tString)
        THEN handle_string_directive(token, st)
        ELSE IF strstr(token, tEntry) THEN handle_entry(token, st)
        ELSE IF strstr(token, tExtern) THEN handle_extern(token, st)
        ELSE IF strstr(token, tStop) \/ strstr(token, tRts)
        THEN handle_no_operand_instruction(token, st)
        ELSE IF is_instruction(st.mem) THEN handle_instruction(token, st)
        ELSE add_error(st, "ERR_UNEXPECTED_TOKEN", st.mem.current_file,
                       st.mem.current_line_number, token)
\* parse_line
parse_line(line, st) ==
    ParseTokens([st EXCEPT !.mem.current_line = line], line, 1)

\* an assemble that leaves every address as the first pass set it
RelocateNothing(m) == m
\* assemble: the adjustment of the label and node addresses between the
\* two passes
RelocateLabel(label, IC) ==
    IF ~label.is_instruction
    THEN [label EXCEPT !.address = IF @ = 0 THEN 0 ELSE @ + IC]
    ELSE [label EXCEPT !.address = @ + 100]
Relocate(m) ==
    [m EXCEPT
       !.label_list =
           [i \in DOMAIN m.label_list |->
              RelocateLabel(m.label_list[i], m.IC)],
       !.instructionList =
           [i \in DOMAIN m.instructionList |->
              [m.instructionList[i] EXCEPT !.address = @ + 100]],
       !.dataList =
           [i \in DOMAIN m.dataList |->
              [m.dataList[i] EXCEPT !.address = @ + m.IC]]]

\* second_parse: the word of an instruction node that names a label
ResolvedWord(label_list, node) ==
    LET i == find_label(label_list, node.label_name)
        label == label_list[i]
        are == IF label.external THEN ARE_EXTERNAL
               ELSE IF label.entry THEN ARE_RELOCATABLE
               ELSE ARE_ABSOLUTE
    IN  IF i # 0
        THEN ToWord(BitOr(are, Shl(int_to_word(label.address), 3)))
        ELSE ARE_EXTERNAL
\* a cross-check that reports nothing but an external label marked entry
LabelErrorsEntryOnly(label, filename) ==
    IF label.external /\ label.entry
    THEN <<"ERR_LABEL_DECLARED_AS_EXTERNAL">> ELSE <<>>
\* second_parse: the errors of one label
LabelErrors(label, filename) ==
    LET undeclared == IF ~label.declared /\ label.file_name = filename
                      THEN <<"ERR_LABEL_NOT_DECLARED">> ELSE <<>>
    IN  IF label.external
        THEN undeclared \o (IF label.entry
                            THEN <<"ERR_LABEL_DECLARED_AS_EXTERNAL">>
                            ELSE <<>>)
        ELSE undeclared
RECURSIVE CheckLabels(_, _, _)
CheckLabels(st, filename, i) ==
    LET label == st.mem.label_list[i]
        codes == LabelErrors(label, filename)
        RECURSIVE Add(_, _)
        Add(s, k) == IF k > Len(codes) THEN s
                     ELSE Add(add_error(s, codes[k], label.file_name,
                                        label.line_number, label.name), k + 1)
    IN  IF i > Len(st.mem.label_list) THEN st
        ELSE CheckLabels(Add(st, 1), filename, i + 1)
\* second_parse
second_parse(filename, st) ==
    LET ll == st.mem.label_list
        il == st.mem.instructionList
        s1 == [st EXCEPT !.mem.instructionList =
                 [i \in DOMAIN il |->
                    IF il[i].label_name # NULL
                    THEN [il[i] EXCEPT !.data = ResolvedWord(ll, il[i])]
                    ELSE il[i]]]
    IN  CheckLabels(s1, filename, 1)

(***************************************************************************)
(* preprocessor.c.  ps = [macro_list, errors] is threaded through.         *)
(***************************************************************************)
\* add_macro: the new macro becomes the head of the list
add_macro(ml, new_macro) == <<new_macro>> \o ml

\* the indices from i on of the lines whose first token is a member of toks
LinesFrom(lines, i, toks) ==
    {j \in i..Len(lines) : FirstToken(lines[j]) \in toks}

\* the first loop of preprocess from line i on, context->line_number being
\* ln there: each "macr" line opens process_macro_definition, which reads
\* the body up to the first line that starts with "endmacr"
RECURSIVE CollectMacros(_, _, _, _, _, _)
CollectMacros(ps, ok, lines, filename, i, ln) ==
    LET S == LinesFrom(lines, i, {tMacr})
        j == Least(S)
        lj == ln + (j - i)
        name == TokenAt(lines[j], 2)
        E == {e \in (j + 1)..Len(lines) :
                lines[e] # <<>> /\ HasPrefix(lines[e][1], tEndmacr)}
        e == IF E = {} THEN Len(lines) + 1 ELSE Least(E)
        new_macro == [name |-> name, lines |-> SubSeq(lines, j + 1, e - 1)]
        fail(code, detail) ==
            [ps EXCEPT !.errors =
                Append(@, [code |-> code, filename |-> filename,
                           line |-> lj, detail |-> detail])]
    IN  IF S = {} THEN [ok |-> ok, ps |-> ps]
        ELSE IF name = NULL
        THEN CollectMacros(fail("ERR_MACRO_NAME_MISSING", NULL), FALSE, lines,
                           filename, j + 1, lj + 1)
        ELSE IF ~validate_macro_name(name)
        THEN CollectMacros(fail("ERR_MACRO_NAME_IS_NOT_VALID", name), FALSE,
                           lines, filename, j + 1, lj + 1)
        ELSE CollectMacros([ps EXCEPT !.macro_list = add_macro(@, new_macro)],
                           ok, lines, filename, e + 1, lj + (e - j))

\* expand_macros: the preprocessed lines of the file
expand_macros(lines, ml) ==
    LET marks == LinesFrom(lines, 1, {tMacr, tEndmacr})
        \* skip_lines when line k is reached
        skip(k) == LET before == {j \in marks : j < k}
                   IN  before # {} /\ FirstToken(lines[Greatest(before)]) = tMacr
        out(k) ==
            LET token == FirstToken(lines[k])
            IN  IF token = NULL THEN << <<>> >>
                ELSE IF token = tEndmacr THEN <<>>
                ELSE IF token = tMacr \/ skip(k) THEN <<>>
                ELSE IF macro_defined(ml, token)
                THEN find_macro(ml, token).lines
                ELSE <<lines[k]>>
    IN  Flatten([k \in DOMAIN lines |-> out(k)])

\* preprocess, for a file that can be opened: [ok, ps, preprocessed_lines]
preprocess(filename, lines, ps) ==
    LET r == CollectMacros(ps, TRUE, lines, filename, 1, 1)
    IN  [ok |-> r.ok /\ ~has_errors(r.ps.errors),
         ps |-> r.ps,
         preprocessed_lines |-> expand_macros(lines, r.ps.macro_list)]

(***************************************************************************)
(* file_manager.c.  A path is [name, ext]: name is the sequence of base    *)
(* names that are joined by '_', ext the sequence of suffixes.  A file     *)
(* name of main.c is [base, ext].  io = [fs, errors, written] is threaded. *)
(***************************************************************************)
NoFile == [exists |-> FALSE, lines |-> <<>>]
FilePath(filename) == [name |-> <<filename.base>>, ext |-> filename.ext]
\* extract_and_format_filename: the base names without their last suffix
extract_and_format_filename(names) ==
    [i \in DOMAIN names |-> names[i].base]
OutputPath(names, suffix) ==
    [name |-> extract_and_format_filename(names), ext |-> <<suffix>>]
FileError(io, path) ==
    [io EXCEPT !.errors =
        Append(@, [code |-> "ERR_FILE_NOT_FOUND", filename |-> path,
                   line |-> 0, detail |-> NULL])]

\* delete_file
delete_file(io, path) ==
    IF ~io.fs[path].exists THEN io
    ELSE IF "remove" \in faults THEN FileError(io, path)
    ELSE [io EXCEPT !.fs[path] = NoFile]
\* delete_output_files
RECURSIVE DeleteFrom(_, _, _)
DeleteFrom(io, names, i) ==
    IF i > Len(names) THEN io
    ELSE LET d1 == delete_file(io, OutputPath(names, "ent"))
             d2 == delete_file(d1, OutputPath(names, "ext"))
             d3 == delete_file(d2, OutputPath(names, "ob"))
             d4 == delete_file(d3, [name |-> <<names[i].base>>,
                                    ext |-> names[i].ext \o <<"am">>])
         IN  DeleteFrom(d4, names, i + 1)
delete_output_files(io, names) == DeleteFrom(io, names, 1)

\* create_preprocessed_files
RECURSIVE CreateFrom(_, _, _)
CreateFrom(io, ctxs, i) ==
    IF i > Len(ctxs) THEN io
    ELSE LET f == ctxs[i].filename
             output_filename ==
                 IF f.ext # <<>> /\ f.ext[Len(f.ext)] = "as"
                 THEN [name |-> <<f.base>>,
                       ext |-> SubSeq(f.ext, 1, Len(f.ext) - 1) \o <<"am">>]
                 ELSE [name |-> <<f.base>>, ext |-> f.ext \o <<"am">>]
         IN  IF "open_am" \in faults
             THEN CreateFrom(FileError(io, output_filename), ctxs, i + 1)
             ELSE CreateFrom(
                      [io EXCEPT
                         !.fs[output_filename] =
                             [exists |-> TRUE,
                              lines |-> ctxs[i].preprocessed_lines],
                         !.written = @ \cup {output_filename}],
                      ctxs, i + 1)
create_preprocessed_files(io, ctxs) == CreateFrom(io, ctxs, 1)

\* fix_filenames: the last suffix becomes ".am"
fix_filenames(names) ==
    [i \in DOMAIN names |->
        [names[i] EXCEPT !.ext =
            IF @ = <<>> THEN <<"am">>
            ELSE SubSeq(@, 1, Len(@) - 1) \o <<"am">>]]

\* write_to_entry_file
write_to_entry_file(io, name, address, path) ==
    IF "open_ent" \in faults THEN FileError(io, path)
    ELSE [io EXCEPT
            !.fs[path] = [exists |-> TRUE,
                          lines |-> Append(@.lines, [name |-> name,
                                                     address |-> address])],
            !.written = @ \cup {path}]
\* write_to_extern_file
write_to_extern_file(io, name, address, path) ==
    IF "open_ext" \in faults THEN FileError(io, path)
    ELSE [io EXCEPT
            !.fs[path] = [exists |-> TRUE,
                          lines |-> Append(@.lines, [name |-> name,
                                                     address |-> address])],
            !.written = @ \cup {path}]
\* write_to_object_file for each node of nodes in turn: the first call
\* that finds no file writes the header line before its own line
WriteObjectWords(io, nodes, path, m) ==
    LET header == [IC |-> m.IC, DC |-> m.DC - 100]
        word_lines == [k \in DOMAIN nodes |->
                         [address |-> nodes[k].address, data |-> nodes[k].data]]
    IN  IF nodes = <<>> \/ "open_ob" \in faults THEN io
        ELSE [io EXCEPT
                !.fs[path] =
                    [exists |-> TRUE,
                     lines |-> (IF @.exists THEN @.lines ELSE <<header>>)
                               \o word_lines],
                !.written = @ \cup {path}]
\* write_output_files: the loop over the labels
RECURSIVE WriteLabels(_, _, _, _)
WriteLabels(io, label_list, names, i) ==
    IF i > Len(label_list) THEN io
    ELSE LET label == label_list[i]
         IN  IF label.entry
             THEN WriteLabels(write_to_entry_file(io, label.name, label.address,
                                                  OutputPath(names, "ent")),
                              label_list, names, i + 1)
             ELSE IF label.external
             THEN WriteLabels(write_to_extern_file(io, label.name,
                                                   label.address,
                                                   OutputPath(names, "ext")),
                              label_list, names, i + 1)
             ELSE WriteLabels(io, label_list, names, i + 1)
\* write_output_files
write_output_files(io, names, m) ==
    LET io1 == WriteLabels(io, m.label_list, names, 1)
        io2 == WriteObjectWords(io1, m.instructionList,
                                OutputPath(names, "ob"), m)
    IN  WriteObjectWords(io2, m.dataList, OutputPath(names, "ob"), m)

(***************************************************************************)
(* main.c and assembler.c, step by step.                                   *)
(***************************************************************************)
IO == [fs |-> fs, errors |-> errors, written |-> written]
St == [mem |-> mem, errors |-> errors]

\* main: prepare_filenames appends ".as" to each argument and fails at the
\* first source that cannot be opened; then the contexts are allocated
PrepareFilenames ==
    /\ pc = "start"
    /\ LET names == [i \in 1..argc |-> [base |-> filenames[i].base,
                                        ext |-> <<"as">>]]
           missing == {i \in 1..argc : ~fs[FilePath(names[i])].exists}
       IN  IF missing # {}
           THEN /\ errors' = FileError(IO, names[Least(missing)]).errors
                /\ pc' = "fail"
                /\ UNCHANGED <<filenames, contexts, success, fi>>
           ELSE /\ filenames' = names
                /\ contexts' = [i \in 1..argc |->
                                  [filename |-> NULL,
                                   preprocessed_lines |-> <<>>]]
                /\ success' = TRUE
                /\ fi' = 1
                /\ pc' = "preprocess"
                /\ UNCHANGED errors
    /\ UNCHANGED call
    /\ UNCHANGED <<fs, faults, argc, macro_list, mem, written, log,
                   emitted, exit_code>>

\* preprocess_all_files: one iteration of its loop; main branches on the
\* result after the last one
Preprocess ==
    /\ pc = "preprocess"
    /\ \E r \in {preprocess(filenames[fi], fs[FilePath(filenames[fi])].lines,
                           [macro_list |-> macro_list, errors |-> errors])} :
       LET ok == success /\ r.ok
       IN  /\ contexts' = [contexts EXCEPT ![fi] =
                             [filename |-> filenames[fi],
                              preprocessed_lines |-> r.preprocessed_lines]]
           /\ macro_list' = r.ps.macro_list
           /\ errors' = r.ps.errors
           /\ success' = ok
           /\ IF fi < argc THEN /\ fi' = fi + 1
                                /\ pc' = "preprocess"
              ELSE /\ fi' = 1
                   /\ pc' = IF ok THEN "delete" ELSE "exit"
    /\ UNCHANGED call
    /\ UNCHANGED <<fs, faults, argc, filenames, mem, written, log,
                   emitted, exit_code>>

\* main: delete_output_files
DeleteOutputFiles ==
    /\ pc = "delete"
    /\ \E io \in {delete_output_files(IO, filenames)} :
           /\ fs' = io.fs
           /\ errors' = io.errors
    /\ pc' = "create"
    /\ UNCHANGED call
    /\ UNCHANGED <<faults, argc, filenames, contexts, macro_list, success,
                   mem, fi, written, log, emitted, exit_code>>

\* main: create_preprocessed_files
CreatePreprocessedFiles ==
    /\ pc = "create"
    /\ \E io \in {create_preprocessed_files(IO, contexts)} :
           /\ fs' = io.fs
           /\ errors' = io.errors
           /\ written' = io.written
    /\ pc' = "fix"
    /\ UNCHANGED call
    /\ UNCHANGED <<faults, argc, filenames, contexts, macro_list, success,
                   mem, fi, log, emitted, exit_code>>

\* main: fix_filenames
FixFilenames ==
    /\ pc = "fix"
    /\ filenames' = fix_filenames(filenames)
    /\ pc' = "init"
    /\ UNCHANGED call
    /\ UNCHANGED <<fs, faults, argc, contexts, macro_list, errors, success,
                   mem, fi, written, log, emitted, exit_code>>

\* assemble: initialize_memory
InitializeMemory ==
    /\ pc = "init"
    /\ mem' = initialize_memory
    /\ fi' = 1
    /\ pc' = "parse_file"
    /\ UNCHANGED call
    /\ UNCHANGED <<fs, faults, argc, filenames, contexts, macro_list, errors,
                   success, written, log, emitted, exit_code>>

\* emitted notes how many words precede a label when it is declared: st
\* is the state before a line, st1 the state after it
NoteDeclared(st, st1) ==
    LET was == {l.name : l \in {x \in Range(st.mem.label_list) : x.declared}}
        now == {i \in DOMAIN st1.mem.label_list :
                  /\ st1.mem.label_list[i].declared
                  /\ st1.mem.label_list[i].name \notin was}
    IN  IF now = {} THEN st1
        ELSE [st1 EXCEPT !.emitted =
                 Append(@, [name |-> st1.mem.label_list[Least(now)].name,
                            instructions |-> Len(st.mem.instructionList),
                            data |-> Len(st.mem.dataList)])]
\* parse_file: one iteration of its loop on the line read
ParseStep(st, line) ==
    NoteDeclared(st,
                 IF line # <<>>
                 THEN parse_line(line,
                                 [st EXCEPT !.mem.current_line_number = @ + 1])
                 ELSE [st EXCEPT !.mem.current_line_number = @ + 1])
\* the loop of parse_file over lines lo..hi of the file, in order: the
\* state after the first half of the lines is computed, then the second
\* half starts from it
RECURSIVE ParseLines(_, _, _, _)
ParseLines(st, lines, lo, hi) ==
    IF lo > hi THEN st
    ELSE IF lo = hi THEN ParseStep(st, lines[lo])
    ELSE LET mid == (lo + hi) \div 2
         IN  CHOOSE last \in {ParseLines(first, lines, mid + 1, hi) :
                                first \in {ParseLines(st, lines, lo, mid)}} :
                 TRUE
\* parse_file
parse_file(filename, st) ==
    LET st0 == [st EXCEPT !.mem.current_line_number = 0,
                          !.mem.current_file = filename]
        file == fs[FilePath(filename)]
    IN  IF ~file.exists
        THEN [st0 EXCEPT !.errors = FileError(IO, filename).errors]
        ELSE ParseLines(st0, file.lines, 1, Len(file.lines))

\* assemble: one iteration of the parse_file loop
ParseFile ==
    /\ pc = "parse_file"
    /\ \E st1 \in {parse_file(filenames[fi],
                            [mem |-> mem, errors |-> errors,
                             emitted |-> emitted])} :
           /\ mem' = st1.mem
           /\ errors' = st1.errors
           /\ emitted' = st1.emitted
    /\ log' = Append(log, <<"parse_file", fi>>)
    /\ IF fi < argc THEN /\ fi' = fi + 1
                         /\ pc' = "parse_file"
       ELSE /\ fi' = 1
            /\ pc' = "relocate"
    /\ UNCHANGED call
    /\ UNCHANGED <<fs, faults, argc, filenames, contexts, macro_list, success,
                   written, exit_code>>

\* assemble: the label and node addresses are adjusted
AdjustAddresses ==
    /\ pc = "relocate"
    /\ mem' = Relocate(mem)
    /\ log' = Append(log, <<"relocate">>)
    /\ pc' = "second_parse"
    /\ UNCHANGED call
    /\ UNCHANGED <<fs, faults, argc, filenames, contexts, macro_list, errors,
                   success, fi, written, emitted, exit_code>>

\* assemble: one iteration of the second_parse loop
SecondParse ==
    /\ pc = "second_parse"
    /\ \E st1 \in {second_parse(filenames[fi], St)} :
           /\ mem' = st1.mem
           /\ errors' = st1.errors
    /\ log' = Append(log, <<"second_parse", fi>>)
    /\ IF fi < argc THEN /\ fi' = fi + 1
                         /\ pc' = "second_parse"
       ELSE /\ fi' = 1
            /\ pc' = "output"
    /\ UNCHANGED call
    /\ UNCHANGED <<fs, faults, argc, filenames, contexts, macro_list, success,
                   written, emitted, exit_code>>

\* assemble: the error check and write_output_files
WriteOutput ==
    /\ pc = "output"
    /\ IF has_errors(errors)
       THEN /\ success' = FALSE
            /\ UNCHANGED <<fs, errors, written, log>>
       ELSE \E io \in {write_output_files(IO, filenames, mem)} :
                /\ fs' = io.fs
                /\ errors' = io.errors
                /\ written' = io.written
                /\ log' = Append(log, <<"write_output_files">>)
                /\ success' = TRUE
    /\ pc' = "clear"
    /\ UNCHANGED call
    /\ UNCHANGED <<faults, argc, filenames, contexts, macro_list, mem, fi,
                   emitted, exit_code>>

\* assemble: clear_memory, and the return to main
ClearMemory ==
    /\ pc = "clear"
    /\ mem' = clear_memory
    /\ pc' = "exit"
    /\ UNCHANGED call
    /\ UNCHANGED <<fs, faults, argc, filenames, contexts, macro_list, errors,
                   success, fi, written, log, emitted, exit_code>>

\* main: the resources are freed and main returns
MainReturn ==
    /\ pc \in {"exit", "fail"}
    /\ exit_code' = IF pc = "fail" THEN 1 ELSE IF success THEN 0 ELSE 1
    /\ errors' = <<>>
    /\ macro_list' = <<>>
    /\ pc' = "done"
    /\ UNCHANGED call
    /\ UNCHANGED <<fs, faults, argc, filenames, contexts, success, mem, fi,
                   written, log, emitted>>

Next ==
    \/ PrepareFilenames
    \/ Preprocess
    \/ DeleteOutputFiles
    \/ CreatePreprocessedFiles
    \/ FixFilenames
    \/ InitializeMemory
    \/ ParseFile
    \/ AdjustAddresses
    \/ SecondParse
    \/ WriteOutput
    \/ ClearMemory
    \/ MainReturn

(***************************************************************************)
(* Initial states: the command line and the files on disk.                 *)
(***************************************************************************)
MaxFiles == 2
MaxLines == 3
CmpLines == 1366
StringLen == 3994

Bases == <<"a", "b", "c", "d">>
EXT == <<"E", "X", "T">>
EXTc == <<"E", "X", "T", ":">>
r1 == <<"r", "1">>
ir2 == <<"*", "r", "2">>

\* the source lines the small programs are made of
SourceLines ==
    { <<tExtern, EXT>>,                      \* .extern EXT
      <<tEntry, EXT>>,                       \* .entry EXT
      <<EXTc, tData, <<"5">>, <<"-", "3">>>>, \* EXT: .data 5, -3
      <<EXTc, tStop>>,                       \* EXT: stop
      <<tMov, EXT, r1>>,                     \* mov EXT, r1
      <<tCmp, <<"#", "-", "1">>, ir2>>,      \* cmp #-1, *r2
      <<tMov, r1, ir2>> }                    \* mov r1, *r2

\* whole source files for the runs that exercise the file system
SourceFiles ==
    { << <<tLea, <<"#", "5">>, r1>> >>,                  \* lea #5, r1
      << <<tEntry, EXT>>, <<EXTc, tData, <<"5">>>> >>,   \* .entry EXT / EXT: .data 5
      << <<tExtern, EXT>>, <<EXTc, tStop>> >>,           \* .extern EXT / EXT: stop
      << <<tMacr, tMov>>, <<tStop>>, <<tEndmacr>> >>,    \* macr mov / stop / endmacr
      << <<tMacr, <<"m">>>>, <<tStop>>, <<tEndmacr>>, << <<"m">> >> >>,
      << <<tMov, EXT, r1>> >> }                          \* mov EXT, r1

\* large source files: instruction words up to and beyond MEMORY_SIZE, and
\* strings that put the data label that follows near and beyond MEMORY_SIZE
A == <<"A">>
Ac == <<"A", ":">>
CmpFile(n, tail) ==
    [i \in 1..n |-> <<tCmp, <<"#", "1">>, <<"#", "1">>>>] \o tail
StringFile(n, tail) ==
    << <<tString, [k \in 1..(n + 2) |->
                     IF k = 1 \/ k = n + 2 THEN "\"" ELSE "a"]>> >> \o tail
LargeFiles ==
    {CmpFile(n, tail) :
        n \in (CmpLines - 1)..CmpLines,
        tail \in { << <<EXTc, tStop>>, <<Ac, tData, <<"1">>>> >>,
                   << <<Ac, tData, <<"1">>>> >>,
                   << <<EXTc, tStop>> >>,
                   << <<Ac, tData, <<"1">>>>, <<tMov, A, r1>> >> }}
    \cup
    {StringFile(n, tail) :
        n \in (StringLen - 1)..(StringLen + 2),
        tail \in { << <<Ac, tData, <<"1">>>>, <<tMov, A, r1>> >>,
                   << <<Ac, tData, <<"1">>>> >> }}

\* what a previous run of the job left on disk
StaleFile == [exists |-> TRUE, lines |-> << <<tStop>> >>]
File(lines) == [exists |-> TRUE, lines |-> lines]

SourcePath(i) == [name |-> <<Bases[i]>>, ext |-> <<"as">>]
JobName(n) == [i \in 1..n |-> Bases[i]]
OutputPaths(n) ==
    {[name |-> JobName(n), ext |-> <<e>>] : e \in {"ob", "ent", "ext"}}
    \cup {[name |-> <<Bases[i]>>, ext |-> <<"am">>] : i \in 1..n}
Paths(n) ==
    OutputPaths(n)
    \cup {SourcePath(i) : i \in 1..n}
    \cup {[name |-> <<Bases[i]>>, ext |-> <<"as", "am">>] : i \in 1..n}

\* no function is applied on its own while main runs
NoCall == [fn |-> "none"]

\* the state when main starts on the source files srcs (NoFile for a source
\* that does not exist), with or without stale outputs
Start(srcs, stale, fl) ==
    LET n == Len(srcs)
    IN  /\ pc = "start"
        /\ argc = n
        /\ filenames = [i \in 1..n |-> [base |-> Bases[i], ext |-> <<>>]]
        /\ fs = [p \in Paths(n) |->
                   IF \E i \in 1..n : p = SourcePath(i)
                   THEN srcs[CHOOSE i \in 1..n : p = SourcePath(i)]
                   ELSE IF stale /\ p \in OutputPaths(n) THEN StaleFile
                   ELSE NoFile]
        /\ faults = fl
        /\ contexts = <<>>
        /\ macro_list = <<>>
        /\ errors = <<>>
        /\ success = FALSE
        /\ mem = clear_memory
        /\ fi = 1
        /\ written = {}
        /\ log = <<>>
        /\ emitted = <<>>
        /\ exit_code = -1
        /\ call = NoCall

\* small programs: up to MaxLines lines in all, cut into up to MaxFiles
\* files
Init ==
    \E n \in 1..MaxFiles, k \in 0..MaxLines :
      \E all \in [1..k -> SourceLines], cut \in [0..n -> 0..k] :
        /\ cut[0] = 0
        /\ cut[n] = k
        /\ \A i \in 1..n : cut[i - 1] <= cut[i]
        /\ Start([i \in 1..n |-> File(SubSeq(all, cut[i - 1] + 1, cut[i]))],
                 FALSE, {})

\* runs that exercise the file system: whole files, a source that may be
\* missing, stale outputs, and at most one failing file operation
Faults == {"remove", "open_am", "open_ent", "open_ext", "open_ob"}
InitIO ==
    \E n \in 1..MaxFiles :
      \E srcs \in [1..n -> {File(f) : f \in SourceFiles} \cup {NoFile}],
         stale \in BOOLEAN,
         fl \in {{}} \cup {{f} : f \in Faults} :
        Start(srcs, stale, fl)

\* runs on one large file
InitLarge ==
    \E src \in LargeFiles : Start(<<File(src)>>, FALSE, {})

Spec == Init /\ [][Next]_vars
SpecIO == InitIO /\ [][Next]_vars
SpecLarge == InitLarge /\ [][Next]_vars

(***************************************************************************)
(* Properties.                                                             *)
(***************************************************************************)
\* the second pass is over and the streams are still in memory
AfterSecondPass == pc \in {"output", "clear"}
\* the addresses have been adjusted and the streams are still in memory
AfterRelocation == pc \in {"second_parse", "output", "clear"}
\* main is about to free the errors and return
JobEnd == pc \in {"exit", "fail"}
\* the label record an instruction node names
LabelOf(node) == mem.label_list[find_label(mem.label_list, node.label_name)]
\* the instruction nodes that name a label
LabelNodes ==
    {i \in DOMAIN mem.instructionList :
        /\ mem.instructionList[i].label_name # NULL
        /\ is_label(mem.instructionList[i].label_name, mem.label_list)}
JobOutputs == {OutputPath(filenames, e) : e \in {"ob", "ent", "ext"}}

\* C1: after the second pass of a job without errors, an instruction word
\* that references a label has bits 2..0 = 001 when the label is external
\* and 010 when it is declared in the job; every other instruction-stream
\* operand word (immediate, register) has bits 2..0 = 100.
C1_AREMatchesKind ==
    (AfterSecondPass /\ ~has_errors(errors)) =>
        \A i \in DOMAIN mem.instructionList :
            LET node == mem.instructionList[i]
            IN  IF i \in LabelNodes
                THEN IF LabelOf(node).external
                     THEN ARE(node.data) = ARE_EXTERNAL
                     ELSE LabelOf(node).declared =>
                              ARE(node.data) = ARE_RELOCATABLE
                ELSE ARE(node.data) = ARE_ABSOLUTE

\* C2: after the second pass of a job without errors, an instruction word
\* that references an external label has address bits 14..3 zero, and one
\* that references any other label holds that label's relocated address in
\* bits 14..3.
C2_AddressBits ==
    (AfterSecondPass /\ ~has_errors(errors)) =>
        \A i \in LabelNodes :
            LET node == mem.instructionList[i]
            IN  IF LabelOf(node).external
                THEN Bits(node.data, 14, 3) = 0
                ELSE Bits(node.data, 14, 3) = LabelOf(node).address

\* C3: the job made of the one source ".extern EXT" / "mov EXT, r1" ends
\* with an empty error accumulator, its operand word at address 101 has
\* ARE = 001 and address bits 0, and its externals file holds the single
\* line "EXT 0101".
C3_Source == << <<tExtern, EXT>>, <<tMov, EXT, r1>> >>
C3_ExternUseSucceeds ==
    (argc = 1 /\ fs[SourcePath(1)] = File(C3_Source) /\ pc = "clear") =>
        /\ ~has_errors(errors)
        /\ \E i \in DOMAIN mem.instructionList :
              /\ mem.instructionList[i].address = 101
              /\ ARE(mem.instructionList[i].data) = ARE_EXTERNAL
              /\ Bits(mem.instructionList[i].data, 14, 3) = 0
        /\ fs[OutputPath(filenames, "ext")] =
              File(<<[name |-> EXT, address |-> 101]>>)

\* C4: when the outputs of a job have been written, the externals file has
\* exactly one line per instruction node that references an external label,
\* carrying that node's address, and it does not exist when no node
\* references an external label.
ExternalUses ==
    {i \in LabelNodes : LabelOf(mem.instructionList[i]).external}
C4_ExternalsPerUse ==
    (pc = "clear" /\ ~has_errors(errors)) =>
        LET ext == fs[OutputPath(filenames, "ext")]
        IN  IF ExternalUses = {} THEN ~ext.exists
            ELSE /\ ext.exists
                 /\ Len(ext.lines) = Cardinality(ExternalUses)
                 /\ Range(ext.lines) =
                       {[name |-> mem.instructionList[i].label_name,
                         address |-> mem.instructionList[i].address] :
                          i \in ExternalUses}

\* C5: after relocation every instruction node's address is in
\* [100, 100 + IC_final) and every data node's address is in
\* [100 + IC_final, 100 + IC_final + DC_final), IC_final and DC_final being
\* the numbers of words appended to the two streams.
IC_final == Len(mem.instructionList)
DC_final == Len(mem.dataList)
C5_SegmentRanges ==
    AfterRelocation =>
        /\ \A i \in DOMAIN mem.instructionList :
              /\ 100 <= mem.instructionList[i].address
              /\ mem.instructionList[i].address < 100 + IC_final
        /\ \A i \in DOMAIN mem.dataList :
              /\ 100 + IC_final <= mem.dataList[i].address
              /\ mem.dataList[i].address < 100 + IC_final + DC_final

\* C6: after relocation a declared instruction label has address 100 + the
\* number of instruction words emitted before its declaration, a declared
\* data label has address 100 + IC_final + the number of data words emitted
\* before its declaration, and a label that was never declared has
\* address 0.
C6_LabelAddresses ==
    AfterRelocation =>
        /\ \A k \in DOMAIN emitted :
              LET label == mem.label_list[find_label(mem.label_list,
                                                     emitted[k].name)]
              IN  label.address =
                      IF label.is_instruction
                      THEN 100 + emitted[k].instructions
                      ELSE 100 + IC_final + emitted[k].data
        /\ \A i \in DOMAIN mem.label_list :
              ~mem.label_list[i].declared => mem.label_list[i].address = 0

\* C7: when the object file of a job has been written, every word of the
\* instruction stream and of the data stream is below 2^15.
C7_WordsFit15Bits ==
    (pc = "clear" /\ ~has_errors(errors)) =>
        /\ \A i \in DOMAIN mem.instructionList :
              mem.instructionList[i].data < Pow2(WORD_SIZE)
        /\ \A i \in DOMAIN mem.dataList :
              mem.dataList[i].data < Pow2(WORD_SIZE)

\* C8: when a job ends with a non-empty error accumulator, no .ob, .ent or
\* .ext file was written during the job and main returns 1.
C8_ErrorsSuppressOutput ==
    [][(JobEnd /\ has_errors(errors)) =>
          /\ written \cap JobOutputs = {}
          /\ exit_code' = 1]_vars

\* C9: when a job ends with a non-empty error accumulator, none of its
\* output files exists: no <base>.am and no .ob, .ent or .ext of the job's
\* name.
C9_NoOutputsAfterError ==
    (pc = "exit" /\ has_errors(errors)) =>
        \A p \in OutputPaths(argc) : ~fs[p].exists

\* C10: the calls assemble makes are, in this order, parse_file on every
\* file in argv order, the address adjustment once, second_parse on every
\* file in argv order, and then write_output_files; the streams hold first
\* pass addresses until the adjustment and adjusted ones after it, and no
\* .ob, .ent or .ext file is written before second_parse of the last file
\* has returned.
ExpectedLog(n) ==
    [i \in 1..n |-> <<"parse_file", i>>] \o << <<"relocate">> >>
    \o [i \in 1..n |-> <<"second_parse", i>>]
    \o << <<"write_output_files">> >>
IsPrefix(s, t) == Len(s) <= Len(t) /\ \A i \in DOMAIN s : s[i] = t[i]
C10_PassOrder ==
    /\ IsPrefix(log, ExpectedLog(argc))
    /\ pc = "parse_file" => Len(log) = fi - 1
    /\ pc = "relocate" => Len(log) = argc
    /\ pc = "second_parse" => Len(log) = argc + fi
    /\ pc = "output" => Len(log) = 2 * argc + 1
    /\ written \cap JobOutputs # {} => Len(log) = 2 * argc + 2
    /\ (pc \in {"parse_file", "relocate"} /\ mem.instructionList # <<>>) =>
           mem.instructionList[1].address = 0
    /\ (AfterRelocation /\ mem.instructionList # <<>>) =>
           mem.instructionList[1].address = 100
\* a job of two files has written its outputs
C10_Witness ==
    /\ pc = "clear"
    /\ argc = 2
    /\ log = ExpectedLog(2)
    /\ OutputPath(filenames, "ob") \in written

\* C11: a second ".entry L" for a label that is already marked entry, is not
\* external and was named in the file being parsed adds no error and leaves
\* the flags and the address of the label as they were.
SecondEntry(name) == parse_line(<<tEntry, name>>, St)
C11_EntryIdempotent ==
    pc \in {"parse_file", "relocate"} =>
        \A i \in DOMAIN mem.label_list :
            LET label == mem.label_list[i]
                after == SecondEntry(label.name)
            IN  (label.entry /\ ~label.external
                 /\ label.file_name = mem.current_file) =>
                    /\ after.errors = errors
                    /\ after.mem.label_list[i].entry = label.entry
                    /\ after.mem.label_list[i].external = label.external
                    /\ after.mem.label_list[i].declared = label.declared
                    /\ after.mem.label_list[i].is_instruction =
                           label.is_instruction
                    /\ after.mem.label_list[i].address = label.address

\* the error list holds a record of that code whose detail is that name
Recorded(code, name) ==
    \E k \in DOMAIN errors : errors[k].code = code /\ errors[k].detail = name

\* C12: after the second pass, every label that is both external and
\* declared has a LabelDeclaredAsExternal record in the error list.
C12_DeclaredExternalReported ==
    AfterSecondPass =>
        \A i \in DOMAIN mem.label_list :
            (mem.label_list[i].external /\ mem.label_list[i].declared) =>
                Recorded("ERR_LABEL_DECLARED_AS_EXTERNAL",
                         mem.label_list[i].name)

\* C13: after the second pass, every label that is marked both entry and
\* external has an EntryLabelExternal record in the error list.
C13_EntryExternalReported ==
    AfterSecondPass =>
        \A i \in DOMAIN mem.label_list :
            (mem.label_list[i].entry /\ mem.label_list[i].external) =>
                Recorded("ERR_ENTRY_LABEL_EXTERNAL", mem.label_list[i].name)

\* whole source files that name the label EXT in the ways the second pass
\* cross-checks
LabelFiles ==
    { << <<tEntry, EXT>> >>,                            \* .entry EXT
      << <<tExtern, EXT>> >>,                           \* .extern EXT
      << <<EXTc, tStop>> >>,                            \* EXT: stop
      << <<tMov, EXT, r1>> >>,                          \* mov EXT, r1
      << <<tMov, A, r1>>, <<tEntry, EXT>> >>,           \* mov A, r1 / .entry EXT
      << <<tEntry, EXT>>, <<EXTc, tData, <<"5">>>>, <<tMov, EXT, r1>> >>,
      << <<tMov, r1, ir2>> >> }                         \* mov r1, *r2
\* jobs of up to MaxFiles of these files
InitLabels ==
    \E n \in 1..MaxFiles :
      \E srcs \in [1..n -> {File(f) : f \in LabelFiles}] :
        Start(srcs, FALSE, {})
SpecLabels == InitLabels /\ [][Next]_vars

\* the labels that are neither external nor declared
Undeclared ==
    {i \in DOMAIN mem.label_list :
        ~mem.label_list[i].external /\ ~mem.label_list[i].declared}

\* C14: after the second pass every label that is neither external nor
\* declared in any file of the job has a LabelNotDeclared record naming it,
\* and a job that holds such a label writes no object file.
C14_UndeclaredReported ==
    /\ AfterSecondPass =>
          \A i \in Undeclared :
              Recorded("ERR_LABEL_NOT_DECLARED", mem.label_list[i].name)
    /\ (pc = "clear" /\ Undeclared # {}) =>
          /\ OutputPath(filenames, "ob") \notin written
          /\ ~fs[OutputPath(filenames, "ob")].exists
\* a job of two files has gone through the output step with a label that an
\* operand names in one file and .entry names in the other, declared nowhere
C14_Witness ==
    /\ pc = "clear"
    /\ argc = 2
    /\ \E i \in Undeclared :
          /\ mem.label_list[i].entry
          /\ \E k \in DOMAIN mem.instructionList :
                mem.instructionList[k].label_name = mem.label_list[i].name

(***************************************************************************)
(* Functions applied on their own: call holds the arguments, the action    *)
(* applies the function to a freshly initialized memory and an empty error *)
(* list, and call then holds the result.                                   *)
(***************************************************************************)
\* nothing of main has run and the call c is about to be made
Calling(c) ==
    /\ call = c
    /\ pc = "call"
    /\ argc = 0
    /\ filenames = <<>>
    /\ fs = [p \in {} |-> NoFile]
    /\ faults = {}
    /\ contexts = <<>>
    /\ macro_list = <<>>
    /\ errors = <<>>
    /\ success = FALSE
    /\ mem = initialize_memory
    /\ fi = 1
    /\ written = {}
    /\ log = <<>>
    /\ emitted = <<>>
    /\ exit_code = -1

\* the addressing modes handle_instruction passes, UNDEFINED_MODE for an
\* operand that is missing
Modes == {UNDEFINED_MODE, IMMEDIATE_MODE, DIRECT_MODE,
          INDIRECT_REGISTER_MODE, DIRECT_REGISTER_MODE}

InitValidate ==
    \E operation \in Range(operations), dest_mode \in Modes,
       source_mode \in Modes :
        Calling([fn |-> "validate_instruction", operation |-> operation,
                 dest_mode |-> dest_mode, source_mode |-> source_mode,
                 done |-> FALSE, ok |-> FALSE])

\* validate_instruction(operation, dest_mode, source_mode, memory)
ValidateInstruction ==
    /\ pc = "call"
    /\ call.fn = "validate_instruction"
    /\ ~call.done
    /\ \E r \in {validate_instruction(call.operation, call.dest_mode,
                                      call.source_mode, St)} :
           /\ errors' = r.st.errors
           /\ mem' = r.st.mem
           /\ call' = [call EXCEPT !.done = TRUE, !.ok = r.ok]
    /\ UNCHANGED <<pc, fs, faults, argc, filenames, contexts, macro_list,
                   success, fi, written, log, emitted, exit_code>>

SpecValidate == InitValidate /\ [][ValidateInstruction]_vars

\* the legality table of the operand-taking mnemonics
Defined == Modes \ {UNDEFINED_MODE}
Legal(operation, source_mode, dest_mode) ==
    IF operation \in {tMov, tAdd, tSub}
    THEN source_mode \in Defined /\ dest_mode \in Defined \ {IMMEDIATE_MODE}
    ELSE IF operation = tCmp
    THEN source_mode \in Defined /\ dest_mode \in Defined
    ELSE IF operation = tLea
    THEN source_mode = DIRECT_MODE
         /\ dest_mode \in Defined \ {IMMEDIATE_MODE}
    ELSE IF operation \in {tClr, tNot, tInc, tDec, tRed}
    THEN source_mode = UNDEFINED_MODE
         /\ dest_mode \in Defined \ {IMMEDIATE_MODE}
    ELSE IF operation \in {tJmp, tBne, tJsr}
    THEN source_mode = UNDEFINED_MODE
         /\ dest_mode \in {INDIRECT_REGISTER_MODE, DIRECT_REGISTER_MODE}
    ELSE IF operation = tPrn
    THEN source_mode = UNDEFINED_MODE /\ dest_mode \in Defined
    ELSE FALSE

\* C15: for each of the 14 operand-taking mnemonics and every pair of
\* modes, validate_instruction accepts exactly the combinations of the
\* legality table, and a rejection records InvalidSourceOperand,
\* InvalidDestOperand or InvalidAddressMode.
C15_LegalityTable ==
    (/\ call.fn = "validate_instruction"
     /\ call.done
     /\ call.operation \notin {tRts, tStop}) =>
        /\ call.ok <=> Legal(call.operation, call.source_mode, call.dest_mode)
        /\ ~call.ok =>
              \E k \in DOMAIN errors :
                  errors[k].code \in {"ERR_INVALID_SOURCE_OPERAND",
                                      "ERR_INVALID_DEST_OPERAND",
                                      "ERR_INVALID_ADDRESS_MODE"}
\* lea with an immediate source has been rejected
C15_Witness ==
    /\ call.fn = "validate_instruction"
    /\ call.done
    /\ call.operation = tLea
    /\ call.source_mode = IMMEDIATE_MODE
    /\ call.dest_mode = DIRECT_REGISTER_MODE
    /\ ~call.ok
    /\ errors # <<>>

\* single source lines: an optional label declaration, a leading token that
\* is a mnemonic, a directive or neither, and up to two operand tokens
Lines ==
    LET LeadTokens ==
            { tStop, tRts, tMov, tData, tEntry,
              <<"f", "o", "o">>,                         \* foo
              <<".", "d", "a", "t", "a", "x">>,          \* .datax
              <<"x", "s", "t", "o", "p">>,               \* xstop
              <<"r", "t", "s", "x">>,                    \* rtsx
              <<"m", "o", "v", "x">> }                   \* movx
        OperandLists ==
            { <<>>, <<r1>>, << <<"#", "5">> >>, <<EXT>>, <<r1, ir2>>,
              << <<"5">> >> }
    IN  {prefix \o <<lead>> \o operands :
            prefix \in {<<>>, <<EXTc>>}, lead \in LeadTokens,
            operands \in OperandLists}

InitLine ==
    \E line \in Lines :
        Calling([fn |-> "parse_line", line |-> line, done |-> FALSE])

\* parse_line(line, mem) on line 1 of a file
ParseLine ==
    /\ pc = "call"
    /\ call.fn = "parse_line"
    /\ ~call.done
    /\ \E st1 \in {parse_line(call.line,
                              [St EXCEPT !.mem.current_line_number = 1,
                                         !.mem.current_file = <<"a">>])} :
           /\ errors' = st1.errors
           /\ mem' = st1.mem
    /\ call' = [call EXCEPT !.done = TRUE]
    /\ UNCHANGED <<pc, fs, faults, argc, filenames, contexts, macro_list,
                   success, fi, written, log, emitted, exit_code>>

SpecLine == InitLine /\ [][ParseLine]_vars

\* the leading token of a line: the first one that is not a label
\* declaration, NULL when there is none
Leading(line) ==
    LET S == {i \in DOMAIN line : ~strchr(line[i], ":")}
    IN  IF S = {} THEN NULL ELSE line[Least(S)]
\* the tokens that follow the leading token
Operands(line) ==
    LET S == {i \in DOMAIN line : ~strchr(line[i], ":")}
    IN  IF S = {} THEN <<>> ELSE SubSeq(line, Least(S) + 1, Len(line))

\* C16: a line whose mnemonic is rts or stop and that carries one or more
\* operand tokens records an error and appends no instruction word.
C16_NoOperandRejected ==
    (/\ call.fn = "parse_line"
     /\ call.done
     /\ Leading(call.line) \in {tRts, tStop}
     /\ Operands(call.line) # <<>>) =>
        /\ has_errors(errors)
        /\ mem.instructionList = <<>>

\* C17: a line whose leading token is not exactly .data, .string, .entry,
\* .extern or one of the sixteen mnemonics records UnexpectedToken, appends
\* nothing to either stream and changes neither IC nor DC.
C17_UnexpectedToken ==
    (/\ call.fn = "parse_line"
     /\ call.done
     /\ Leading(call.line) # NULL
     /\ Leading(call.line) \notin
            {tData, tString, tEntry, tExtern} \cup Range(operations)) =>
        /\ \E k \in DOMAIN errors : errors[k].code = "ERR_UNEXPECTED_TOKEN"
        /\ mem.instructionList = <<>>
        /\ mem.dataList = <<>>
        /\ mem.IC = initialize_memory.IC
        /\ mem.DC = initialize_memory.DC

\* operand tokens: every non-empty string of up to TokenLen of these
\* characters
TokenLen == 3
InitMode ==
    LET Chars == {"#", "*", "r", "A", "0", "1", "7", "8"}
    IN  \E n \in 1..TokenLen :
          \E operand \in [1..n -> Chars] :
            Calling([fn |-> "get_addressing_mode", operand |-> operand,
                     done |-> FALSE, mode |-> UNDEFINED_MODE])

\* get_addressing_mode(operand)
GetAddressingMode ==
    /\ pc = "call"
    /\ call.fn = "get_addressing_mode"
    /\ ~call.done
    /\ call' = [call EXCEPT !.done = TRUE,
                            !.mode = get_addressing_mode(call.operand)]
    /\ UNCHANGED <<pc, fs, faults, argc, filenames, contexts, macro_list,
                   errors, success, mem, fi, written, log, emitted,
                   exit_code>>

SpecMode == InitMode /\ [][GetAddressingMode]_vars

\* the registers of the register file, r0..r7
RegisterDigits == {"0", "1", "2", "3", "4", "5", "6", "7"}
\* the classification of an operand token by its form
Classify(operand) ==
    IF operand[1] = "#" THEN IMMEDIATE_MODE
    ELSE IF Len(operand) = 2 /\ operand[1] = "r"
            /\ operand[2] \in RegisterDigits
    THEN DIRECT_REGISTER_MODE
    ELSE IF Len(operand) = 3 /\ operand[1] = "*" /\ operand[2] = "r"
            /\ operand[3] \in RegisterDigits
    THEN INDIRECT_REGISTER_MODE
    ELSE DIRECT_MODE

\* C18: a token with a leading # is Immediate, rN is DirReg and *rN is
\* IndReg for every N in 0..7, and every other token is Direct.
C18_OperandClassification ==
    (call.fn = "get_addressing_mode" /\ call.done) =>
        call.mode = Classify(call.operand)

\* jobs of up to MaxFiles whole files that define and use the macro m
InitMacro ==
    LET m == <<"m">>
        Definition == << <<tMacr, m>>, <<tStop>>, <<tEndmacr>> >>
        MacroFiles ==
            { Definition,                                 \* macr m / stop / endmacr
              << <<m>> >>,                                \* m
              << <<<<"m", ":">>, tStop>> >>,              \* m: stop
              << <<tMacr, m>>, <<tStop>>, <<>>, <<tEndmacr>>, <<m>> >>,
              Definition \o << <<m>>, <<tMov, r1, ir2>> >>,
              << <<>>, <<tStop>> >>,                      \* an empty line / stop
              << <<tMov, r1, ir2>> >> }                   \* mov r1, *r2
    IN  \E n \in 1..MaxFiles :
          \E srcs \in [1..n -> {File(f) : f \in MacroFiles}] :
            Start(srcs, FALSE, {})
SpecMacro == InitMacro /\ [][Next]_vars

\* preprocess on file j of the job alone, with an empty macro list
Alone(j) ==
    preprocess(filenames[j], fs[SourcePath(j)].lines,
               [macro_list |-> <<>>, errors |-> <<>>])

\* C19: the preprocessed lines of file j are those the file yields when it
\* is preprocessed on its own, and a label of file j is rejected as a macro
\* name only for a macro that file j defines.
C19_MacrosScoped ==
    /\ pc = "delete" =>
          \A j \in 1..argc :
              contexts[j].preprocessed_lines = Alone(j).preprocessed_lines
    /\ AfterSecondPass =>
          \A k \in DOMAIN errors :
              errors[k].code = "ERR_LABEL_NAME_USED_AS_MACRO" =>
                  \E j \in 1..argc :
                      /\ filenames[j] = errors[k].filename
                      /\ macro_defined(Alone(j).ps.macro_list,
                                       errors[k].detail)

\* line k of lines lies in a macro definition: from a macr line through the
\* first endmacr line after it
InDefinition(lines, k) ==
    \E j \in 1..k :
        /\ FirstToken(lines[j]) = tMacr
        /\ \A e \in (j + 1)..(k - 1) : FirstToken(lines[e]) # tEndmacr
\* the macr lines of lines that open a definition of name
DefinitionsOf(lines, name) ==
    {j \in DOMAIN lines :
        /\ FirstToken(lines[j]) = tMacr
        /\ TokenAt(lines[j], 2) = name
        /\ (j = 1 \/ ~InDefinition(lines, j - 1)
            \/ FirstToken(lines[j - 1]) = tEndmacr)}
\* the body lines of the definition that the macr line j opens
BodyOf(lines, j) ==
    LET E == {e \in (j + 1)..Len(lines) : FirstToken(lines[e]) = tEndmacr}
    IN  SubSeq(lines, j + 1, IF E = {} THEN Len(lines) ELSE Least(E) - 1)
\* the preprocessed lines of a source file: definitions removed, a line
\* whose first token is a defined macro name replaced by the body, every
\* other line kept
Expanded(lines) ==
    Flatten([k \in DOMAIN lines |->
               IF InDefinition(lines, k) THEN <<>>
               ELSE IF FirstToken(lines[k]) # NULL
                       /\ DefinitionsOf(lines, FirstToken(lines[k])) # {}
               THEN BodyOf(lines,
                           Least(DefinitionsOf(lines, FirstToken(lines[k]))))
               ELSE <<lines[k]>>])

\* C20: the preprocessed line list of a source file is its line list with
\* every macro definition removed, every line whose first token is a
\* defined macro name replaced by the body lines in order, and every other
\* line, empty lines included, kept in source order.
C20_PreprocessedLines ==
    (pc = "delete" /\ argc = 1) =>
        contexts[1].preprocessed_lines = Expanded(fs[SourcePath(1)].lines)

\* one-file jobs that define a macro of each of these names
InitMacroName ==
    LET Names == Range(operations)
                 \cup {tMacr, tEndmacr, tEndmar}
                 \cup {<<"r", d>> : d \in {"0", "1", "7", "8"}}
                 \cup {<<"m">>, <<"r">>, <<"r", "1", "x">>, <<"1", "m">>,
                       <<"_", "m">>, tData, EXT}
    IN  \E name \in Names :
            Start(<< File(<< <<tMacr, name>>, <<tStop>>, <<tEndmacr>> >>) >>,
                  FALSE, {})
SpecMacroName == InitMacroName /\ [][Next]_vars

\* the macro names the rule allows
ValidMacroName(name) ==
    /\ name # NULL
    /\ isalpha(name[1])
    /\ name \notin Range(operations)
    /\ name \notin {tMacr, tEndmacr}
    /\ ~(Len(name) = 2 /\ name[1] = "r" /\ name[2] \in RegisterDigits)

\* C21: a macro name is accepted exactly when it is non-null, starts with a
\* letter, is no mnemonic, is neither macr nor endmacr and is not rN for N in
\* 0..7; a macr line with a rejected name records MacroNameInvalid and
\* defines no macro.
C21_MacroNameRule ==
    (pc \in {"delete", "exit"} /\ argc = 1) =>
        LET line == fs[SourcePath(1)].lines[1]
            name == TokenAt(line, 2)
        IN  (FirstToken(line) = tMacr /\ name # NULL) =>
                /\ macro_defined(macro_list, name) <=> ValidMacroName(name)
                /\ ~ValidMacroName(name) =>
                      /\ Recorded("ERR_MACRO_NAME_IS_NOT_VALID", name)
                      /\ macro_list = <<>>

\* strtok(s, "\t ,") called until it returns NULL: the maximal runs of
\* characters of s that are neither blanks nor commas, in order
Tokens(s) ==
    LET delim(i) == s[i] \in {" ", ","}
        starts == {i \in DOMAIN s : ~delim(i) /\ (i = 1 \/ delim(i - 1))}
        start(k) == CHOOSE i \in starts :
                        Cardinality({j \in starts : j < i}) = k - 1
        end(i) == Least({j \in i..Len(s) : j = Len(s) \/ delim(j + 1)})
    IN  [k \in 1..Cardinality(starts) |-> SubSeq(s, start(k), end(start(k)))]

\* directive lines: ".data" with one item of up to TokenLen characters, and
\* ".string" with a quoted literal of up to TokenLen interior characters;
\* text is the item or the literal as the source line spells it
InitDirective ==
    \E n \in 0..TokenLen :
        \/ \E item \in [1..n -> {"#", "+", "-", "5", "0", "x"}] :
              /\ n > 0
              /\ Calling([fn |-> "parse_line", line |-> <<tData, item>>,
                          text |-> item, done |-> FALSE])
        \/ \E interior \in [1..n -> {"a", " ", ",", "\""}] :
              LET literal == <<"\"">> \o interior \o <<"\"">>
              IN  Calling([fn |-> "parse_line",
                           line |-> <<tString>> \o Tokens(literal),
                           text |-> literal, done |-> FALSE])
SpecDirective == InitDirective /\ [][ParseLine]_vars

\* an optional #, an optional sign, then one or more decimal digits
IntegerLiteral(token) ==
    LET a == IF token # <<>> /\ token[1] = "#" THEN 2 ELSE 1
        b == IF a <= Len(token) /\ token[a] \in {"+", "-"} THEN a + 1 ELSE a
    IN  /\ b <= Len(token)
        /\ \A i \in b..Len(token) : isdigit(token[i])

\* C22: a .data item is accepted exactly when it is an optional #, an
\* optional sign and one or more decimal digits; any other item, one
\* without a digit included, records InvalidData and appends no word.
C22_IntegerLiteral ==
    (call.fn = "parse_line" /\ call.done /\ call.line[1] = tData) =>
        /\ ~has_errors(errors) <=> IntegerLiteral(call.text)
        /\ ~IntegerLiteral(call.text) =>
              /\ Recorded("ERR_INVALID_DATA", call.text)
              /\ mem.dataList = <<>>

\* C23: .string with a literal of n interior characters, all in [32,126],
\* records no error and appends n + 1 data words: the characters in order,
\* then a zero, with DC advanced by n + 1.
C23_StringWords ==
    (call.fn = "parse_line" /\ call.done /\ call.line[1] = tString) =>
        LET n == Len(call.text) - 2
        IN  /\ ~has_errors(errors)
            /\ Len(mem.dataList) = n + 1
            /\ \A k \in 1..n : mem.dataList[k].data = Ord(call.text[k + 1])
            /\ mem.dataList[n + 1].data = 0
            /\ mem.DC = initialize_memory.DC + n + 1

\* the object file of the job
ObjectFile == fs[OutputPath(filenames, "ob")]
\* C24: when a job has written its outputs without error, its object file
\* exists and has 1 + IC_final + DC_final lines: the header with IC_final
\* and DC_final, the instruction words, then the data words; a job that
\* emits no word has the header line alone.
C24_ObjectFileLines ==
    (pc = "clear" /\ ~has_errors(errors)) =>
        /\ ObjectFile.exists
        /\ Len(ObjectFile.lines) = 1 + IC_final + DC_final
        /\ ObjectFile.lines[1] = [IC |-> IC_final, DC |-> DC_final]
        /\ \A i \in 1..IC_final :
              ObjectFile.lines[1 + i] =
                  [address |-> mem.instructionList[i].address,
                   data |-> mem.instructionList[i].data]
        /\ \A i \in 1..DC_final :
              ObjectFile.lines[1 + IC_final + i] =
                  [address |-> mem.dataList[i].address,
                   data |-> mem.dataList[i].data]

\* C25: in every state no record of the symbol table is both external and
\* entry, and none is both external and declared.
C25_ExternalExclusive ==
    \A i \in DOMAIN mem.label_list :
        LET label == mem.label_list[i]
        IN  /\ ~(label.external /\ label.entry)
            /\ ~(label.external /\ label.declared)

\* one-file jobs of two lines that each declare a label
InitRedeclare ==
    LET Declarations == { <<Ac, tData, <<"5">>, <<"-", "3">>>>,
                          <<Ac, tData, <<"1">>>>,
                          <<Ac, tStop>>,
                          <<Ac, tMov, r1, ir2>>,
                          <<EXTc, tData, <<"1">>>>,
                          <<EXTc, tStop>> }
    IN  \E first \in Declarations, second \in Declarations :
            Start(<< File(<<first, second>>) >>, FALSE, {})
SpecRedeclare == InitRedeclare /\ [][Next]_vars

\* the source line of the one-file job that is line k
SourceLine(k) == fs[SourcePath(1)].lines[k]
\* the job declares the label of its first line again in its second line
Redeclared == argc = 1 /\ SourceLine(1)[1] = SourceLine(2)[1]
\* the name a declaration line declares, whether it is in the instruction
\* segment, and the number of words it emits
DeclaredName(line) == SubSeq(line[1], 1, Len(line[1]) - 1)
DeclaresInstruction(line) == line[2] # tData
WordsOf(line) ==
    IF line[2] = tData THEN Len(line) - 2
    ELSE IF line[2] = tStop THEN 1 ELSE 2
\* the record a declaration in line k of the job's file makes when words
\* instruction or data words precede it, before relocation
DeclarationRecord(k, words) ==
    NewLabel(DeclaredName(SourceLine(k)),
             IF DeclaresInstruction(SourceLine(k))
             THEN initialize_memory.IC + words
             ELSE initialize_memory.DC + words,
             DeclaresInstruction(SourceLine(k)), FALSE, FALSE,
             [base |-> Bases[1], ext |-> <<"am">>], TRUE, k)
\* the words of the first line that are in the segment of the second
WordsBeforeSecond ==
    IF DeclaresInstruction(SourceLine(1)) = DeclaresInstruction(SourceLine(2))
    THEN WordsOf(SourceLine(1)) ELSE 0
\* the records of the symbol table that have the name declared twice
RecordsOfName ==
    {i \in DOMAIN mem.label_list :
        mem.label_list[i].name = DeclaredName(SourceLine(1))}

InitInstruction ==
    LET Mnemonics == {tMov, tCmp, tAdd, tLea, tClr, tJmp, tPrn, tRts, tStop}
        OperandTokens == { <<"r", "0">>, r1, <<"r", "7">>, <<"*", "r", "0">>,
                           ir2, <<"#", "5">>, A }
    IN  \E operation \in Mnemonics, n \in 0..2 :
          \E operands \in [1..n -> OperandTokens] :
            Calling([fn |-> "parse_line", line |-> <<operation>> \o operands,
                     done |-> FALSE])
SpecInstruction == InitInstruction /\ [][ParseLine]_vars

\* an instruction line has been parsed and no error was recorded; rts and
\* stop take no operand
ValidInstructionParsed ==
    /\ call.fn = "parse_line"
    /\ call.done
    /\ call.line[1] \in Range(operations)
    /\ call.line[1] \in {tRts, tStop} => Len(call.line) = 1
    /\ ~has_errors(errors)
\* rN or *rN with N in 0..7, and its N
RegisterForm(operand) ==
    Classify(operand) \in {DIRECT_REGISTER_MODE, INDIRECT_REGISTER_MODE}
RegisterOf(operand) == DigitVal(operand[Len(operand)])
\* the words of the instruction after its first word
OperandWordCount ==
    LET operands == Tail(call.line)
    IN  IF Len(operands) = 0 THEN 0
        ELSE IF Len(operands) = 1 THEN 1
        ELSE IF RegisterForm(operands[1]) /\ RegisterForm(operands[2]) THEN 1
        ELSE 2

\* C27: a valid instruction advances IC by 1 + k, where k is 0 without
\* operands, 1 with one operand or with two register-form operands, and 2
\* otherwise; the word shared by two register-form operands has the source
\* register in bits 5..3, the destination register in bits 8..6, ARE = 100.
C27_InstructionLength ==
    ValidInstructionParsed =>
        LET operands == Tail(call.line)
        IN  /\ mem.IC = initialize_memory.IC + 1 + OperandWordCount
            /\ (Len(operands) = 2 /\ RegisterForm(operands[1])
                                  /\ RegisterForm(operands[2])) =>
                  LET word == mem.instructionList[2].data
                  IN  /\ Bits(word, 5, 3) = RegisterOf(operands[1])
                      /\ Bits(word, 8, 6) = RegisterOf(operands[2])
                      /\ ARE(word) = ARE_ABSOLUTE

\* C28: the word of a register operand that does not share its word has
\* the register number in bits 8..6 when the operand is the destination
\* and in bits 5..3 when it is the source, ARE = 100, and every other bit
\* zero.
C28_SingleRegisterWord ==
    ValidInstructionParsed =>
        LET operands == Tail(call.line)
            destination == operands[Len(operands)]
        IN  /\ (Len(operands) = 1 /\ RegisterForm(destination)) =>
                  mem.instructionList[2].data =
                      BitOr(Shl(RegisterOf(destination), 6), ARE_ABSOLUTE)
            /\ (Len(operands) = 2 /\ RegisterForm(destination)
                                  /\ ~RegisterForm(operands[1])) =>
                  mem.instructionList[3].data =
                      BitOr(Shl(RegisterOf(destination), 6), ARE_ABSOLUTE)
            /\ (Len(operands) = 2 /\ RegisterForm(operands[1])
                                  /\ ~RegisterForm(destination)) =>
                  mem.instructionList[2].data =
                      BitOr(Shl(RegisterOf(operands[1]), 3), ARE_ABSOLUTE)

\* the number of error records of a code that name a label
RecordCount(code, name) ==
    Cardinality({k \in DOMAIN errors :
                    errors[k].code = code /\ errors[k].detail = name})

\* C29: after the second pass of a job of any number of files, a label that
\* is neither declared nor external and an entry label that is not declared
\* each have exactly one LabelNotDeclared record, and a label that is both
\* external and entry has exactly one record of that violation.
C29_OneRecordPerViolation ==
    AfterSecondPass =>
        \A i \in DOMAIN mem.label_list :
            LET label == mem.label_list[i]
            IN  /\ (~label.declared /\ ~label.external) =>
                      RecordCount("ERR_LABEL_NOT_DECLARED", label.name) = 1
                /\ (label.entry /\ ~label.declared) =>
                      RecordCount("ERR_LABEL_NOT_DECLARED", label.name) = 1
                /\ (label.external /\ label.entry) =>
                      RecordCount("ERR_LABEL_DECLARED_AS_EXTERNAL", label.name)
                      + RecordCount("ERR_ENTRY_LABEL_EXTERNAL", label.name) = 1

\* the addresses of the word lines of the job's object file
ObjectAddresses ==
    {ObjectFile.lines[k].address : k \in 2..Len(ObjectFile.lines)}
\* C30: when a job has written its outputs without error, every address in
\* its object file is below MEMORY_SIZE and no two words have the same
\* address; a job whose words do not fit below MEMORY_SIZE has recorded an
\* error when its first pass is over.
C30_AddressSpace ==
    /\ (pc = "clear" /\ ~has_errors(errors) /\ ObjectFile.exists) =>
          /\ \A a \in ObjectAddresses : a < MEMORY_SIZE
          /\ Cardinality(ObjectAddresses) = Len(ObjectFile.lines) - 1
    /\ (AfterSecondPass /\ 100 + IC_final + DC_final > MEMORY_SIZE) =>
          has_errors(errors)
====
